---- MODULE Spec2Model ----
(***************************************************************************)
(* terminal-poker: the packed Card encoding (card.rs), the five-card hand  *)
(* evaluator (hand_rank.rs) and the ordering of Hands (hand.rs).           *)
(*                                                                         *)
(* u32 values are modelled as naturals.  Every value the encoder and the   *)
(* evaluator produce from encoder-built cards is below 2^29, so no u32     *)
(* arithmetic of those paths wraps.                                        *)
(***************************************************************************)
EXTENDS Integers, Sequences, FiniteSets, TLC

VARIABLES
    pc,       \* position of the caller: which operation ran last
    profile,  \* build profile: "debug" (overflow checks) or "release" (wrapping)
    card,     \* the Card under test, as its packed u32
    made,     \* how the Card under test was built: Card::new(rank, suit) or From<u32>
    decoded,  \* what Card::suit / Card::rank returned, or the fault
    value,    \* a NumericHandRank handed to HandRank::from
    handrank, \* the HandRank built from value, and what numeric() gave back
    hand,     \* the Hand under evaluation: five packed cards
    other,    \* the Hand it is compared with
    result,   \* what the last Hand operation returned
    q,        \* find_value_index: the key searched for
    low,      \* find_value_index: local low
    high,     \* find_value_index: local high
    mid,      \* find_value_index: local mid
    reads,    \* find_value_index: the indices of PRODUCTS read so far
    ranksA,   \* a multiset of five ranks (non-decreasing orders)
    ranksB,   \* a second multiset of five ranks
    products  \* the prime products of ranksA and ranksB

vars == <<pc, profile, card, made, decoded, value, handrank, hand, other, result,
          q, low, high, mid, reads, ranksA, ranksB, products>>

----------------------------------------------------------------------------
(* Bit operations on naturals. *)

RECURSIVE AndBits(_, _)
AndBits(a, b) ==
    IF a = 0 \/ b = 0 THEN 0
    ELSE (a % 2) * (b % 2) + 2 * AndBits(a \div 2, b \div 2)

RECURSIVE OrBits(_, _)
OrBits(a, b) ==
    IF a = 0 THEN b
    ELSE IF b = 0 THEN a
    ELSE (IF a % 2 = 1 \/ b % 2 = 1 THEN 1 ELSE 0) + 2 * OrBits(a \div 2, b \div 2)

\* The same, tabulated for 4-bit and 8-bit operands
And4 == [a \in 0..15 |-> [b \in 0..15 |-> AndBits(a, b)]]
Or4 == [a \in 0..15 |-> [b \in 0..15 |-> OrBits(a, b)]]
And8 == [a \in 0..255 |-> [b \in 0..255 |->
            And4[a % 16][b % 16] + 16 * And4[a \div 16][b \div 16]]]
Or8 == [a \in 0..255 |-> [b \in 0..255 |->
            Or4[a % 16][b % 16] + 16 * Or4[a \div 16][b \div 16]]]

\* a & b
RECURSIVE BitAnd(_, _)
BitAnd(a, b) ==
    IF a = 0 \/ b = 0 THEN 0
    ELSE And8[a % 256][b % 256] + 256 * BitAnd(a \div 256, b \div 256)

\* a | b
RECURSIVE BitOr(_, _)
BitOr(a, b) ==
    IF a = 0 THEN b
    ELSE IF b = 0 THEN a
    ELSE Or8[a % 256][b % 256] + 256 * BitOr(a \div 256, b \div 256)

Shl(a, n) == a * 2^n
Shr(a, n) == a \div 2^n

RECURSIVE PopCount(_)
PopCount(a) == IF a = 0 THEN 0 ELSE (a % 2) + PopCount(a \div 2)

Bit(a, n) == (a \div 2^n) % 2

----------------------------------------------------------------------------
(* card.rs: Rank, Suit, Card *)

Rank == {"Two", "Three", "Four", "Five", "Six", "Seven", "Eight", "Nine",
         "Ten", "Jack", "Queen", "King", "Ace"}

Suit == {"Hearts", "Diamonds", "Spades", "Clubs"}

\* A faulty prime table: Four shares the prime of Three
prime_encoding_dup(rank) ==
    CASE rank = "Ace"   -> 41
      [] rank = "King"  -> 37
      [] rank = "Queen" -> 31
      [] rank = "Jack"  -> 29
      [] rank = "Ten"   -> 23
      [] rank = "Nine"  -> 19
      [] rank = "Eight" -> 17
      [] rank = "Seven" -> 13
      [] rank = "Six"   -> 11
      [] rank = "Five"  -> 7
      [] rank = "Four"  -> 3
      [] rank = "Three" -> 3
      [] rank = "Two"   -> 2

\* Rank::prime_encoding
prime_encoding(rank) ==
    CASE rank = "Ace"   -> 41
      [] rank = "King"  -> 37
      [] rank = "Queen" -> 31
      [] rank = "Jack"  -> 29
      [] rank = "Ten"   -> 23
      [] rank = "Nine"  -> 19
      [] rank = "Eight" -> 17
      [] rank = "Seven" -> 13
      [] rank = "Six"   -> 11
      [] rank = "Five"  -> 7
      [] rank = "Four"  -> 5
      [] rank = "Three" -> 3
      [] rank = "Two"   -> 2

order_encoding(rank) ==
    CASE rank = "Ace"   -> 12
      [] rank = "King"  -> 11
      [] rank = "Queen" -> 10
      [] rank = "Jack"  -> 9
      [] rank = "Ten"   -> 8
      [] rank = "Nine"  -> 7
      [] rank = "Eight" -> 6
      [] rank = "Seven" -> 5
      [] rank = "Six"   -> 4
      [] rank = "Five"  -> 3
      [] rank = "Four"  -> 2
      [] rank = "Three" -> 1
      [] rank = "Two"   -> 0

suit_bits(suit) ==
    CASE suit = "Spades"   -> 4096     \* 0x1000
      [] suit = "Hearts"   -> 8192     \* 0x2000
      [] suit = "Diamonds" -> 16384    \* 0x4000
      [] suit = "Clubs"    -> 32768    \* 0x8000

\* A faulty encoder: the order is shifted by 4 and lands on the prime field
CardNewShift4(rank, suit) ==
    LET prime == prime_encoding(rank)
        order == order_encoding(rank)
        base  == Shl(1, 16 + order)
    IN  BitOr(BitOr(BitOr(base, Shl(order, 4)), suit_bits(suit)), prime)

\* A faulty encoder: the prime is left out of the low byte
CardNewNoPrime(rank, suit) ==
    LET order == order_encoding(rank)
        base  == Shl(1, 16 + order)
    IN  BitOr(BitOr(base, Shl(order, 8)), suit_bits(suit))

\* Card::new: base | order << 8 | suit_bits | prime
CardNew(rank, suit) ==
    LET prime == prime_encoding(rank)
        order == order_encoding(rank)
        base  == Shl(1, 16 + order)
    IN  BitOr(BitOr(BitOr(base, Shl(order, 8)), suit_bits(suit)), prime)

as_int(c) == c

Panic(msg) == [panic |-> msg]
Ok(v) == [ok |-> v]
IsPanic(r) == "panic" \in DOMAIN r
IsOk(r) == "ok" \in DOMAIN r

\* A faulty suit decoder: an empty suit field is read as Spades
CardSuitDefault(c) ==
    LET bits == BitAnd(c, 61440)
    IN  CASE bits = 4096  -> Ok("Spades")
          [] bits = 8192  -> Ok("Hearts")
          [] bits = 16384 -> Ok("Diamonds")
          [] bits = 32768 -> Ok("Clubs")
          [] bits = 0     -> Ok("Spades")
          [] OTHER        -> Panic("Bad suite encoding")

\* Card::suit: match on self.0 & 0xF000
CardSuit(c) ==
    LET bits == BitAnd(c, 61440)
    IN  CASE bits = 4096  -> Ok("Spades")
          [] bits = 8192  -> Ok("Hearts")
          [] bits = 16384 -> Ok("Diamonds")
          [] bits = 32768 -> Ok("Clubs")
          [] OTHER        -> Panic("Bad suite encoding")

\* A faulty rank decoder: the mask 0x0700 drops the top bit of the order
CardRank3Bit(c) ==
    LET bits == Shr(BitAnd(c, 1792), 8)
    IN  CASE bits = 0  -> Ok("Two")
          [] bits = 1  -> Ok("Three")
          [] bits = 2  -> Ok("Four")
          [] bits = 3  -> Ok("Five")
          [] bits = 4  -> Ok("Six")
          [] bits = 5  -> Ok("Seven")
          [] bits = 6  -> Ok("Eight")
          [] bits = 7  -> Ok("Nine")
          [] OTHER     -> Panic("Bad rank encoding")

\* Card::rank: match on (self.0 & 0x0F00) >> 8
CardRank(c) ==
    LET bits == Shr(BitAnd(c, 3840), 8)
    IN  CASE bits = 0  -> Ok("Two")
          [] bits = 1  -> Ok("Three")
          [] bits = 2  -> Ok("Four")
          [] bits = 3  -> Ok("Five")
          [] bits = 4  -> Ok("Six")
          [] bits = 5  -> Ok("Seven")
          [] bits = 6  -> Ok("Eight")
          [] bits = 7  -> Ok("Nine")
          [] bits = 8  -> Ok("Ten")
          [] bits = 9  -> Ok("Jack")
          [] bits = 10 -> Ok("Queen")
          [] bits = 11 -> Ok("King")
          [] bits = 12 -> Ok("Ace")
          [] OTHER     -> Panic("Bad rank encoding")

\* From<u32> for Card
CardFrom(i) == i

----------------------------------------------------------------------------
(* hand_rank.rs: HandRank *)

\* A faulty conversion: the Straight threshold is 1598 instead of 1599
HandRankFromSlip(i) ==
    IF i > 6185 THEN [cat |-> "HighCard", n |-> i]
    ELSE IF i > 3325 THEN [cat |-> "OnePair", n |-> i]
    ELSE IF i > 2467 THEN [cat |-> "TwoPair", n |-> i]
    ELSE IF i > 1609 THEN [cat |-> "ThreeOfAKind", n |-> i]
    ELSE IF i > 1598 THEN [cat |-> "Straight", n |-> i]
    ELSE IF i > 322 THEN [cat |-> "Flush", n |-> i]
    ELSE IF i > 166 THEN [cat |-> "FullHouse", n |-> i]
    ELSE IF i > 10 THEN [cat |-> "FourOfAKind", n |-> i]
    ELSE [cat |-> "StraightFlush", n |-> i]

\* From<NumericHandRank> for HandRank
HandRankFrom(i) ==
    IF i > 6185 THEN [cat |-> "HighCard", n |-> i]
    ELSE IF i > 3325 THEN [cat |-> "OnePair", n |-> i]
    ELSE IF i > 2467 THEN [cat |-> "TwoPair", n |-> i]
    ELSE IF i > 1609 THEN [cat |-> "ThreeOfAKind", n |-> i]
    ELSE IF i > 1599 THEN [cat |-> "Straight", n |-> i]
    ELSE IF i > 322 THEN [cat |-> "Flush", n |-> i]
    ELSE IF i > 166 THEN [cat |-> "FullHouse", n |-> i]
    ELSE IF i > 10 THEN [cat |-> "FourOfAKind", n |-> i]
    ELSE [cat |-> "StraightFlush", n |-> i]

\* HandRank::numeric
numeric(hr) ==
    CASE hr.cat = "HighCard"      -> hr.n
      [] hr.cat = "OnePair"       -> hr.n
      [] hr.cat = "TwoPair"       -> hr.n
      [] hr.cat = "ThreeOfAKind"  -> hr.n
      [] hr.cat = "Straight"      -> hr.n
      [] hr.cat = "Flush"         -> hr.n
      [] hr.cat = "FullHouse"     -> hr.n
      [] hr.cat = "FourOfAKind"   -> hr.n
      [] hr.cat = "StraightFlush" -> hr.n

----------------------------------------------------------------------------
(* lookup_tables: FLUSHES, UNIQUES, PRODUCTS, VALUES.                      *)
(* The tables are static data of the crate.  They are rebuilt here from    *)
(* their contract: the 7462 strength classes in poker order, keyed by the  *)
(* 13-bit rank mask (FLUSHES, UNIQUES) or by the product of the five rank  *)
(* primes (PRODUCTS, VALUES).  The table primes are literal data and do    *)
(* not depend on Rank::prime_encoding.                                     *)

TablePrimes == <<2, 3, 5, 7, 11, 13, 17, 19, 23, 29, 31, 37, 41>>
Orders == 0..12

\* n choose k, for k <= 5
Binomial(n, k) ==
    CASE k = 0 -> 1
      [] k = 1 -> n
      [] k = 2 -> (n * (n - 1)) \div 2
      [] k = 3 -> (n * (n - 1) * (n - 2)) \div 6
      [] k = 4 -> (n * (n - 1) * (n - 2) * (n - 3)) \div 24
      [] k = 5 -> (n * (n - 1) * (n - 2) * (n - 3) * (n - 4)) \div 120

\* Number of |K|-subsets of A that beat K when compared highest rank first.
StrongerSubsets(K, A) ==
    LET idx(o) == Cardinality({x \in A : x < o})
        pos(o) == Cardinality({x \in K : x <= o})
        asc[S \in SUBSET K] ==
            IF S = {} THEN 0
            ELSE LET o == CHOOSE x \in S : TRUE
                 IN  Binomial(idx(o), pos(o)) + asc[S \ {o}]
    IN  Binomial(Cardinality(A), Cardinality(K)) - 1 - asc[K]

MaskBits(m) == {o \in Orders : Bit(m, o) = 1}

WheelMask == BitOr(Shl(1, 12), 15)
StraightMasks == {Shl(31, k) : k \in 0..8} \cup {WheelMask}
\* 0 for the ace-high straight, 9 for the wheel
StraightIndex(m) == IF m = WheelMask THEN 9 ELSE 8 - (CHOOSE k \in 0..8 : m = Shl(31, k))

\* Position of a five-distinct-rank mask among the 1277 that are no straight.
NoStraightIndex(m) ==
    StrongerSubsets(MaskBits(m), Orders) - Cardinality({s \in StraightMasks : s > m})

FLUSHES ==
    [m \in 0..8191 |->
        IF PopCount(m) # 5 THEN 0
        ELSE IF m \in StraightMasks THEN 1 + StraightIndex(m)
        ELSE 323 + NoStraightIndex(m)]

UNIQUES ==
    [m \in 0..8191 |->
        IF PopCount(m) # 5 THEN 0
        ELSE IF m \in StraightMasks THEN 1600 + StraightIndex(m)
        ELSE 6186 + NoStraightIndex(m)]

TP(o) == TablePrimes[o + 1]

ProductSet ==
    {TP(a) * TP(a) * TP(a) * TP(a) * TP(b) : <<a, b>> \in {p \in Orders \X Orders : p[1] # p[2]}}
    \cup {TP(a) * TP(a) * TP(a) * TP(b) * TP(b) : <<a, b>> \in {p \in Orders \X Orders : p[1] # p[2]}}
    \cup {TP(t[1]) * TP(t[1]) * TP(t[1]) * TP(t[2]) * TP(t[3]) :
            t \in {u \in Orders \X Orders \X Orders : u[2] < u[3] /\ u[1] # u[2] /\ u[1] # u[3]}}
    \cup {TP(t[1]) * TP(t[1]) * TP(t[2]) * TP(t[2]) * TP(t[3]) :
            t \in {u \in Orders \X Orders \X Orders : u[1] < u[2] /\ u[3] # u[1] /\ u[3] # u[2]}}
    \cup {TP(t[1]) * TP(t[1]) * TP(t[2]) * TP(t[3]) * TP(t[4]) :
            t \in {u \in Orders \X Orders \X Orders \X Orders :
                     u[2] < u[3] /\ u[3] < u[4] /\ u[1] \notin {u[2], u[3], u[4]}}}

RECURSIVE Ascending(_, _, _)
Ascending(S, lo, hi) ==
    IF S = {} THEN << >>
    ELSE IF Cardinality(S) = 1 THEN << CHOOSE x \in S : TRUE >>
    ELSE LET m == (lo + hi) \div 2
         IN  Ascending({x \in S : x < m}, lo, m) \o Ascending({x \in S : x >= m}, m, hi)

ProductSeq == Ascending(ProductSet, 0, 2^27)

PRODUCTS == [i \in 0..(Len(ProductSeq) - 1) |-> ProductSeq[i + 1]]

RECURSIVE Exponent(_, _)
Exponent(n, p) == IF n % p # 0 THEN 0 ELSE 1 + Exponent(n \div p, p)

\* The strength class of the rank multiset whose prime product is n.
ValueOfProduct(n) ==
    LET times(k) == {o \in Orders : Exponent(n, TP(o)) = k}
        one(S) == CHOOSE o \in S : TRUE
    IN  IF times(4) # {} THEN
            11 + (12 - one(times(4))) * 12 + StrongerSubsets(times(1), Orders \ times(4))
        ELSE IF times(3) # {} /\ times(2) # {} THEN
            167 + (12 - one(times(3))) * 12 + StrongerSubsets(times(2), Orders \ times(3))
        ELSE IF times(3) # {} THEN
            1610 + (12 - one(times(3))) * 66 + StrongerSubsets(times(1), Orders \ times(3))
        ELSE IF Cardinality(times(2)) = 2 THEN
            2468 + StrongerSubsets(times(2), Orders) * 11
                 + StrongerSubsets(times(1), Orders \ times(2))
        ELSE
            3326 + (12 - one(times(2))) * 220 + StrongerSubsets(times(1), Orders \ times(2))

VALUES == [i \in DOMAIN PRODUCTS |-> ValueOfProduct(PRODUCTS[i])]

----------------------------------------------------------------------------
(* hand_rank.rs: the evaluator *)

\* Width of usize in the model.  The targets have 16, 32 or 64 bits; the only
\* wrapped value find_value_index can produce is usize::MAX, and half of it
\* lies beyond the end of PRODUCTS at every one of these widths.
UsizeBits == 16
UsizeMax == 2^UsizeBits - 1

\* A faulty flush test: the fifth card is left out
all_same_suit_four(h) ==
    LET card0 == as_int(h[1])
        card1 == as_int(h[2])
        card2 == as_int(h[3])
        card3 == as_int(h[4])
    IN  BitAnd(BitAnd(BitAnd(BitAnd(card0, card1), card2), card3), 61440) # 0

\* A faulty flush test: the mask 0x7000 leaves out the bit of Clubs
all_same_suit_no_clubs(h) ==
    LET card0 == as_int(h[1])
        card1 == as_int(h[2])
        card2 == as_int(h[3])
        card3 == as_int(h[4])
        card4 == as_int(h[5])
    IN  BitAnd(BitAnd(BitAnd(BitAnd(BitAnd(card0, card1), card2), card3), card4), 28672) # 0

\* HandRank::all_same_suit
all_same_suit(h) ==
    LET card0 == as_int(h[1])
        card1 == as_int(h[2])
        card2 == as_int(h[3])
        card3 == as_int(h[4])
        card4 == as_int(h[5])
    IN  BitAnd(BitAnd(BitAnd(BitAnd(BitAnd(card0, card1), card2), card3), card4), 61440) # 0

\* find_value_index, the entry: low = 0, high = 4888
FviEnter ==
    [low |-> 0, high |-> 4888, mid |-> 0, pc |-> "loop", out |-> Ok(0)]

\* The branch one pass of `while low <= high` takes for key from locals s.
FviBranch(key, s) ==
    IF ~(s.low <= s.high) THEN "miss"
    ELSE LET m == Shr(s.high + s.low, 1)
         IN  IF m \notin DOMAIN PRODUCTS THEN "out_of_bounds"
             ELSE IF key < PRODUCTS[m] THEN (IF m = 0 THEN "underflow" ELSE "less")
             ELSE IF key > PRODUCTS[m] THEN "greater"
             ELSE "found"

\* A faulty pass: the two halves are exchanged
FviStepSwapped(key, s, prof) ==
    IF ~(s.low <= s.high) THEN
        [s EXCEPT !.pc = "panic", !.out = Panic("No match found")]
    ELSE
        LET m == Shr(s.high + s.low, 1)
        IN  IF m \notin DOMAIN PRODUCTS THEN
                [s EXCEPT !.mid = m, !.pc = "panic", !.out = Panic("index out of bounds")]
            ELSE IF key > PRODUCTS[m] THEN
                IF m # 0 THEN [s EXCEPT !.mid = m, !.high = m - 1]
                ELSE IF prof = "debug" THEN
                    [s EXCEPT !.mid = m, !.pc = "panic",
                              !.out = Panic("attempt to subtract with overflow")]
                ELSE [s EXCEPT !.mid = m, !.high = UsizeMax]
            ELSE IF key < PRODUCTS[m] THEN
                [s EXCEPT !.mid = m, !.low = m + 1]
            ELSE
                [s EXCEPT !.mid = m, !.pc = "return", !.out = Ok(m)]

\* One pass of the loop of find_value_index (or the panic after it).
FviStep(key, s, prof) ==
    IF ~(s.low <= s.high) THEN
        [s EXCEPT !.pc = "panic", !.out = Panic("No match found")]
    ELSE
        LET m == Shr(s.high + s.low, 1)
        IN  IF m \notin DOMAIN PRODUCTS THEN
                [s EXCEPT !.mid = m, !.pc = "panic", !.out = Panic("index out of bounds")]
            ELSE IF key < PRODUCTS[m] THEN
                IF m # 0 THEN [s EXCEPT !.mid = m, !.high = m - 1]
                \* high = mid - 1 with mid = 0: checked in debug, wrapping in release
                ELSE IF prof = "debug" THEN
                    [s EXCEPT !.mid = m, !.pc = "panic",
                              !.out = Panic("attempt to subtract with overflow")]
                ELSE [s EXCEPT !.mid = m, !.high = UsizeMax]
            ELSE IF key > PRODUCTS[m] THEN
                [s EXCEPT !.mid = m, !.low = m + 1]
            ELSE
                [s EXCEPT !.mid = m, !.pc = "return", !.out = Ok(m)]

RECURSIVE FviRun(_, _, _)
FviRun(key, s, prof) ==
    IF s.pc # "loop" THEN s ELSE FviRun(key, FviStep(key, s, prof), prof)

\* HandRank::find_value_index
find_value_index(key, prof) == FviRun(key, FviEnter, prof).out

\* A faulty product: the fourth card is taken twice, the fifth never
PrimeProductRepeat(h) ==
    BitAnd(as_int(h[1]), 255) * BitAnd(as_int(h[2]), 255) * BitAnd(as_int(h[3]), 255)
        * BitAnd(as_int(h[4]), 255) * BitAnd(as_int(h[4]), 255)

\* The prime product q of HandRank::compute
PrimeProduct(h) ==
    BitAnd(as_int(h[1]), 255) * BitAnd(as_int(h[2]), 255) * BitAnd(as_int(h[3]), 255)
        * BitAnd(as_int(h[4]), 255) * BitAnd(as_int(h[5]), 255)

\* The products compute forms on the way to q, left to right
PrimeProductSteps(h) ==
    LET b(i) == BitAnd(as_int(h[i]), 255)
    IN  << b(1), b(1) * b(2), b(1) * b(2) * b(3), b(1) * b(2) * b(3) * b(4),
           b(1) * b(2) * b(3) * b(4) * b(5) >>

\* A faulty lookup_index: the last card is left out
LookupIndexFour(h) ==
    LET card0 == as_int(h[1])
        card1 == as_int(h[2])
        card2 == as_int(h[3])
        card3 == as_int(h[4])
    IN  Shr(BitOr(BitOr(BitOr(card0, card1), card2), card3), 16)

\* The lookup_index of HandRank::compute
LookupIndex(h) ==
    LET card0 == as_int(h[1])
        card1 == as_int(h[2])
        card2 == as_int(h[3])
        card3 == as_int(h[4])
        card4 == as_int(h[5])
    IN  Shr(BitOr(BitOr(BitOr(BitOr(card0, card1), card2), card3), card4), 16)

\* HandRank::compute
compute(h, prof) ==
    LET lookup_index == LookupIndex(h)
    IN  IF all_same_suit(h) THEN
            Ok(HandRankFrom(FLUSHES[lookup_index]))
        ELSE
            LET rank == UNIQUES[lookup_index]
            IN  IF rank # 0 THEN Ok(HandRankFrom(rank))
                ELSE LET i == find_value_index(PrimeProduct(h), prof)
                     IN  IF IsPanic(i) THEN i ELSE Ok(HandRankFrom(VALUES[i.ok]))

\* The table HandRank::compute consults for h, and the key it consults it at
ConsultedKey(h) ==
    LET lookup_index == LookupIndex(h)
    IN  IF all_same_suit(h) THEN <<"FLUSHES", lookup_index>>
        ELSE IF UNIQUES[lookup_index] # 0 THEN <<"UNIQUES", lookup_index>>
        ELSE <<"PRODUCTS", PrimeProduct(h)>>

----------------------------------------------------------------------------
(* hand.rs: Hand *)

\* Hand::new
HandNew(cards) == cards

\* Hand::rank
HandRank(h, prof) == compute(h, prof)

\* u32::cmp
CmpU32(x, y) == IF x < y THEN "Less" ELSE IF x > y THEN "Greater" ELSE "Equal"

\* Ordering::reverse
reverse(o) == CASE o = "Less" -> "Greater" [] o = "Greater" -> "Less" [] o = "Equal" -> "Equal"

\* Ord::cmp for Hand: self.rank().numeric().cmp(&other.rank().numeric()),
\* where self.rank() returned ra and other.rank() returned rb
cmp(ra, rb) ==
    IF IsPanic(ra) THEN ra
    ELSE IF IsPanic(rb) THEN rb
    ELSE Ok(CmpU32(numeric(ra.ok), numeric(rb.ok)))

\* A faulty partial_cmp: the reversal is left out
partial_cmp_plain(ra, rb) ==
    LET c == cmp(ra, rb)
    IN  IF IsPanic(c) THEN c ELSE Ok([some |-> c.ok])

\* PartialOrd::partial_cmp for Hand: Some(self.cmp(other).reverse())
partial_cmp(ra, rb) ==
    LET c == cmp(ra, rb)
    IN  IF IsPanic(c) THEN c ELSE Ok([some |-> reverse(c.ok)])

\* PartialEq::eq for Hand: self.rank().numeric() == other.rank().numeric()
eq(ra, rb) ==
    IF IsPanic(ra) THEN ra
    ELSE IF IsPanic(rb) THEN rb
    ELSE Ok(numeric(ra.ok) = numeric(rb.ok))

\* The operators > and < as Hand inherits them from partial_cmp
gt(ra, rb) ==
    LET c == partial_cmp(ra, rb)
    IN  IF IsPanic(c) THEN c ELSE Ok(c.ok = [some |-> "Greater"])

lt(ra, rb) ==
    LET c == partial_cmp(ra, rb)
    IN  IF IsPanic(c) THEN c ELSE Ok(c.ok = [some |-> "Less"])

\* Ord::max as Hand inherits it from std: if other < self { self } else { other }.
\* The operator < is PartialOrd::lt, so max is decided by partial_cmp, not by
\* cmp, and other.rank() is called before self.rank().
max(a, b, ra, rb) ==
    LET c == lt(rb, ra)
    IN  IF IsPanic(c) THEN c ELSE Ok(IF c.ok THEN a ELSE b)

----------------------------------------------------------------------------
(* The callers.  Each specification below drives one part of the crate;    *)
(* the variables the part does not use keep the value Idle.                *)

Idle == "idle"
NotCalled == [not_called |-> TRUE]
Profiles == {"debug", "release"}

\* Ranks dealt by the hand specifications: the NumRanks lowest ones.
NumRanks == 6
RanksInPlay == {r \in Rank : order_encoding(r) < NumRanks}
SuitsInPlay == {"Hearts", "Diamonds"}
\* Ranks dealt to the hands that are compared: the NumCompareRanks lowest ones.
NumCompareRanks == 5
CompareRanks == {r \in Rank : order_encoding(r) < NumCompareRanks}

MkHand(cs) == HandNew([i \in 1..5 |-> CardNew(cs[i][1], cs[i][2])])

\* The hands of the tests of hand_rank.rs
TestHands ==
    { MkHand(<< <<"Two", "Hearts">>, <<"Three", "Hearts">>, <<"Four", "Hearts">>,
                <<"Five", "Hearts">>, <<"Six", "Hearts">> >>),
      MkHand(<< <<"King", "Spades">>, <<"Queen", "Clubs">>, <<"Jack", "Hearts">>,
                <<"Ten", "Hearts">>, <<"Nine", "Hearts">> >>),
      MkHand(<< <<"Two", "Spades">>, <<"Two", "Clubs">>, <<"Two", "Hearts">>,
                <<"Two", "Diamonds">>, <<"Three", "Hearts">> >>),
      MkHand(<< <<"Two", "Hearts">>, <<"Two", "Diamonds">>, <<"Four", "Hearts">>,
                <<"Five", "Hearts">>, <<"Six", "Hearts">> >>),
      MkHand(<< <<"Two", "Spades">>, <<"Two", "Clubs">>, <<"Four", "Diamonds">>,
                <<"Five", "Diamonds">>, <<"Six", "Diamonds">> >>) }

IdleCard == card = Idle /\ made = Idle /\ decoded = Idle
IdleRank == value = Idle /\ handrank = Idle
IdleHand == hand = Idle /\ other = Idle /\ result = Idle
IdleSearch == q = Idle /\ low = Idle /\ high = Idle /\ mid = Idle /\ reads = Idle
IdleProduct == ranksA = Idle /\ ranksB = Idle /\ products = Idle

cardVars == <<card, made, decoded>>
rankVars == <<value, handrank>>
handVars == <<hand, other, result>>
searchVars == <<q, low, high, mid, reads>>
productVars == <<ranksA, ranksB, products>>

----------------------------------------------------------------------------
(* Spec: a hand is dealt card by card, built by Hand::new and ranked.  The *)
(* actions that pair it with a second hand and compare the two are used by *)
(* SpecCompare.                                                            *)

Init ==
    /\ pc = "deal" /\ profile = Idle
    /\ hand = << >> /\ other = << >> /\ result = Idle
    /\ IdleCard /\ IdleRank /\ IdleSearch /\ IdleProduct

\* Card::new for the next card of the hand (dealt in ascending packed order,
\* repeats allowed: Hand::new enforces no uniqueness)
Deal(r, s) ==
    /\ pc = "deal" /\ Len(hand) < 5
    /\ LET c == CardNew(r, s)
       IN  /\ (IF hand = << >> THEN TRUE ELSE as_int(hand[Len(hand)]) <= as_int(c))
           /\ hand' = Append(hand, c)
    /\ UNCHANGED <<pc, profile, other, result, cardVars, rankVars, searchVars, productVars>>

\* Hand::new
NewHand ==
    /\ pc = "deal" /\ Len(hand) = 5
    /\ hand' = HandNew(hand)
    /\ pc' = "hand"
    /\ UNCHANGED <<profile, other, result, cardVars, rankVars, searchVars, productVars>>

\* Hand::rank on the hand alone
CallRank ==
    /\ pc = "hand"
    /\ \E prof \in Profiles : result' = [op |-> "rank", ret |-> HandRank(hand, prof)]
    /\ pc' = "done"
    /\ UNCHANGED <<profile, hand, other, cardVars, rankVars, searchVars, productVars>>

\* The second hand: the same cards with two neighbours exchanged
Swap(i) ==
    /\ pc = "hand"
    /\ other' = HandNew([hand EXCEPT ![i] = hand[i + 1], ![i + 1] = hand[i]])
    /\ pc' = "paired"
    /\ UNCHANGED <<profile, hand, result, cardVars, rankVars, searchVars, productVars>>

\* The second hand: the same ranks, card i in suit s
Resuit(i, s) ==
    /\ pc = "hand"
    /\ other' = HandNew([hand EXCEPT ![i] = CardNew(CardRank(hand[i]).ok, s)])
    /\ pc' = "paired"
    /\ UNCHANGED <<profile, hand, result, cardVars, rankVars, searchVars, productVars>>

\* The second hand: one of the hands of the crate's tests
Opponent(t) ==
    /\ pc = "hand"
    /\ other' = t
    /\ pc' = "paired"
    /\ UNCHANGED <<profile, hand, result, cardVars, rankVars, searchVars, productVars>>

\* The two calls that open every comparison of Hand: self.rank() and other.rank()
RankBoth ==
    /\ pc = "paired"
    /\ \E prof \in Profiles :
          result' = [self |-> HandRank(hand, prof), other |-> HandRank(other, prof)]
    /\ pc' = "ranked"
    /\ UNCHANGED <<profile, hand, other, cardVars, rankVars, searchVars, productVars>>

\* hand.cmp(&other), and max(hand, other) of the same two hands
CallCmp ==
    /\ pc = "ranked"
    /\ result' = [self |-> result.self, other |-> result.other, op |-> "cmp",
                  ret |-> cmp(result.self, result.other),
                  max |-> max(hand, other, result.self, result.other)]
    /\ pc' = "compared"
    /\ UNCHANGED <<profile, hand, other, cardVars, rankVars, searchVars, productVars>>

\* hand.partial_cmp(&other), and hand > other, hand < other which it decides
CallPartialCmp ==
    /\ pc = "ranked"
    /\ result' = [self |-> result.self, other |-> result.other, op |-> "partial_cmp",
                  ret |-> partial_cmp(result.self, result.other),
                  gt |-> gt(result.self, result.other),
                  lt |-> lt(result.self, result.other)]
    /\ pc' = "compared"
    /\ UNCHANGED <<profile, hand, other, cardVars, rankVars, searchVars, productVars>>

\* hand == other
CallEq ==
    /\ pc = "ranked"
    /\ result' = [self |-> result.self, other |-> result.other, op |-> "eq",
                  ret |-> eq(result.self, result.other)]
    /\ pc' = "compared"
    /\ UNCHANGED <<profile, hand, other, cardVars, rankVars, searchVars, productVars>>

Next ==
    \/ \E r \in RanksInPlay, s \in SuitsInPlay : Deal(r, s)
    \/ NewHand
    \/ CallRank

Spec == Init /\ [][Next]_vars

----------------------------------------------------------------------------
(* SpecCompare: a dealt hand is paired with a second hand and compared.    *)

NextCompare ==
    \/ \E r \in CompareRanks, s \in SuitsInPlay : Deal(r, s)
    \/ NewHand
    \/ \E i \in 1..4 : Swap(i)
    \/ \E i \in 1..5, s \in SuitsInPlay : Resuit(i, s)
    \/ \E t \in TestHands : Opponent(t)
    \/ RankBoth
    \/ CallCmp
    \/ CallPartialCmp
    \/ CallEq

SpecCompare == Init /\ [][NextCompare]_vars

----------------------------------------------------------------------------
(* SpecCard: cards are built by Card::new or wrapped by From<u32>, then    *)
(* decoded by Card::suit and Card::rank.                                   *)

\* The u32 values wrapped by From<u32>: every suit nibble and order nibble,
\* with these rank-presence fields (bits 16-28), low bytes and bits 29-30.
PresenceInPlay == {0, 1, 3, 2^12, 2^12 + 1}
LowByteInPlay == {0, 2, 41}
TopBitsInPlay == {0, 1, 2}
RawCards ==
    {Shl(t, 29) + Shl(b, 16) + Shl(sn, 12) + Shl(o, 8) + p :
        t \in TopBitsInPlay, b \in PresenceInPlay, sn \in 0..15, o \in 0..15,
        p \in LowByteInPlay}

InitCard ==
    /\ pc = "start" /\ profile = Idle
    /\ IdleCard /\ IdleRank /\ IdleHand /\ IdleSearch /\ IdleProduct

\* Card::new(r, s) for some rank r and suit s
New ==
    /\ pc = "start"
    /\ \E r \in Rank, s \in Suit :
          /\ card' = CardNew(r, s)
          /\ made' = [by |-> "new", rank |-> r, suit |-> s]
    /\ decoded' = [suit |-> NotCalled, rank |-> NotCalled]
    /\ pc' = "card"
    /\ UNCHANGED <<profile, rankVars, handVars, searchVars, productVars>>

\* Card::from(i) for some u32 i
From ==
    /\ pc = "start"
    /\ \E i \in RawCards :
          /\ card' = CardFrom(i)
          /\ made' = [by |-> "from", raw |-> i]
    /\ decoded' = [suit |-> NotCalled, rank |-> NotCalled]
    /\ pc' = "card"
    /\ UNCHANGED <<profile, rankVars, handVars, searchVars, productVars>>

\* card.suit()
CallSuit ==
    /\ pc = "card" /\ decoded.suit = NotCalled
    /\ decoded' = [decoded EXCEPT !.suit = CardSuit(card)]
    /\ UNCHANGED <<pc, profile, card, made, rankVars, handVars, searchVars, productVars>>

\* card.rank()
CallCardRank ==
    /\ pc = "card" /\ decoded.rank = NotCalled
    /\ decoded' = [decoded EXCEPT !.rank = CardRank(card)]
    /\ UNCHANGED <<pc, profile, card, made, rankVars, handVars, searchVars, productVars>>

NextCard ==
    \/ New
    \/ From
    \/ CallSuit
    \/ CallCardRank

SpecCard == InitCard /\ [][NextCard]_vars

----------------------------------------------------------------------------
(* SpecRank: a NumericHandRank is turned into a HandRank and read back.    *)

\* The values handed to HandRank::from: 0..ValueBound
ValueBound == 7500

InitRank ==
    /\ pc = "start" /\ profile = Idle
    /\ IdleCard /\ IdleRank /\ IdleHand /\ IdleSearch /\ IdleProduct

\* HandRank::from(v) for some v
CallFrom ==
    /\ pc = "start"
    /\ \E v \in 0..ValueBound :
          /\ value' = v
          /\ handrank' = [rank |-> HandRankFrom(v)]
    /\ pc' = "built"
    /\ UNCHANGED <<profile, cardVars, handVars, searchVars, productVars>>

\* rank.numeric()
CallNumeric ==
    /\ pc = "built"
    /\ handrank' = [rank |-> handrank.rank, numeric |-> numeric(handrank.rank)]
    /\ pc' = "read"
    /\ UNCHANGED <<profile, value, cardVars, handVars, searchVars, productVars>>

NextRank ==
    \/ CallFrom
    \/ CallNumeric

SpecRank == InitRank /\ [][NextRank]_vars

----------------------------------------------------------------------------
(* SpecSearch: find_value_index, one pass of its loop per step.            *)

\* The keys searched for: the prime product of every multiset of five ranks
\* (those of the 4888 table shapes, of five distinct ranks and of five equal
\* ranks), 0, and the key after the last table entry.
SearchKeys ==
    UNION {UNION {UNION {UNION {{TP(a) * TP(b) * TP(c) * TP(d) * TP(e) : e \in d..12}
        : d \in c..12} : c \in b..12} : b \in a..12} : a \in Orders}
    \cup {0, ProductSeq[Len(ProductSeq)] + 1}

Locals == [low |-> low, high |-> high, mid |-> mid, pc |-> pc, out |-> result]

InitSearch ==
    /\ pc = "start" /\ profile \in Profiles
    /\ result = Idle
    /\ hand = Idle /\ other = Idle
    /\ IdleCard /\ IdleRank /\ IdleSearch /\ IdleProduct

\* find_value_index(k) is entered, for some key k
Enter ==
    /\ pc = "start"
    /\ q' \in SearchKeys
    /\ low' = FviEnter.low /\ high' = FviEnter.high /\ mid' = FviEnter.mid
    /\ result' = FviEnter.out
    /\ reads' = {}
    /\ pc' = FviEnter.pc
    /\ UNCHANGED <<profile, hand, other, cardVars, rankVars, productVars>>

\* The locals after the pass the loop takes next; a pass that evaluates
\* PRODUCTS[mid] records mid in reads.
Advance ==
    LET s == FviStep(q, Locals, profile)
    IN  /\ low' = s.low /\ high' = s.high /\ mid' = s.mid
        /\ result' = s.out /\ pc' = s.pc
        /\ reads' = IF s.out = Panic("No match found") THEN reads ELSE reads \cup {s.mid}
        /\ UNCHANGED <<q, profile, hand, other, cardVars, rankVars, productVars>>

\* q < PRODUCTS[mid]: high = mid - 1
Less ==
    /\ pc = "loop" /\ FviBranch(q, Locals) = "less"
    /\ Advance

\* q > PRODUCTS[mid]: low = mid + 1
Greater ==
    /\ pc = "loop" /\ FviBranch(q, Locals) = "greater"
    /\ Advance

\* q = PRODUCTS[mid]: return mid
Found ==
    /\ pc = "loop" /\ FviBranch(q, Locals) = "found"
    /\ Advance

\* low > high: panic!("No match found for key {}", q)
Miss ==
    /\ pc = "loop" /\ FviBranch(q, Locals) = "miss"
    /\ Advance

\* PRODUCTS[mid] with mid beyond the table
OutOfBounds ==
    /\ pc = "loop" /\ FviBranch(q, Locals) = "out_of_bounds"
    /\ Advance

\* q < PRODUCTS[0]: high = 0 - 1
Underflow ==
    /\ pc = "loop" /\ FviBranch(q, Locals) = "underflow"
    /\ Advance

NextSearch ==
    \/ Enter
    \/ Less
    \/ Greater
    \/ Found
    \/ Miss
    \/ OutOfBounds
    \/ Underflow

SpecSearch == InitSearch /\ [][NextSearch]_vars

----------------------------------------------------------------------------
(* SpecProduct: the prime products of two multisets of five ranks.         *)

RankOfOrder(o) == CHOOSE r \in Rank : order_encoding(r) = o

\* The multisets of five ranks among the NumRanks lowest, as non-decreasing orders
RankMultisets ==
    {m \in [1..5 -> 0..(NumRanks - 1)] : \A i \in 1..4 : m[i] <= m[i + 1]}

HandOfRanks(m) == HandNew([i \in 1..5 |-> CardNew(RankOfOrder(m[i]), "Hearts")])

InitProduct ==
    /\ pc = "start" /\ profile = Idle
    /\ ranksA \in RankMultisets /\ ranksB \in RankMultisets
    /\ products = Idle
    /\ IdleCard /\ IdleRank /\ IdleHand /\ IdleSearch

\* q is computed for both multisets
Multiply ==
    /\ pc = "start"
    /\ products' = [a |-> PrimeProduct(HandOfRanks(ranksA)),
                    b |-> PrimeProduct(HandOfRanks(ranksB))]
    /\ pc' = "multiplied"
    /\ UNCHANGED <<profile, ranksA, ranksB, cardVars, rankVars, handVars, searchVars>>

NextProduct == Multiply

SpecProduct == InitProduct /\ [][NextProduct]_vars

\* Every multiset of five of the thirteen ranks, as non-decreasing orders
AllRankMultisets ==
    UNION {UNION {UNION {UNION {{<<a, b, c, d, e>> : e \in d..12}
        : d \in c..12} : c \in b..12} : b \in a..12} : a \in Orders}

----------------------------------------------------------------------------
(* SpecParts: HandRank::compute on hands of all thirteen ranks and all     *)
(* four suits, with what it forms on the way: lookup_index, the flush      *)
(* test, the table it consults and the product q.                          *)

\* The multisets of ranks that are dealt in every combination of suits
RanksInAllSuits ==
    { <<0, 0, 0, 0, 0>>, <<12, 12, 12, 12, 12>>, <<0, 1, 2, 3, 4>>, <<0, 1, 2, 3, 12>>,
      <<8, 9, 10, 11, 12>>, <<0, 0, 1, 1, 2>>, <<3, 7, 7, 7, 11>>, <<0, 2, 4, 6, 8>> }

\* The combinations of suits every multiset of ranks is dealt in
SuitsForAllRanks ==
    { <<"Hearts", "Hearts", "Hearts", "Hearts", "Hearts">>,
      <<"Diamonds", "Diamonds", "Diamonds", "Diamonds", "Diamonds">>,
      <<"Spades", "Spades", "Spades", "Spades", "Spades">>,
      <<"Clubs", "Clubs", "Clubs", "Clubs", "Clubs">>,
      <<"Hearts", "Hearts", "Hearts", "Hearts", "Diamonds">>,
      <<"Spades", "Hearts", "Diamonds", "Clubs", "Spades">>,
      <<"Clubs", "Clubs", "Diamonds", "Diamonds", "Diamonds">> }

SuitVectors(m) == IF m \in RanksInAllSuits THEN [1..5 -> Suit] ELSE SuitsForAllRanks

InitParts ==
    /\ pc = "start" /\ profile = Idle
    /\ ranksA \in AllRankMultisets /\ ranksB = Idle /\ products = Idle
    /\ IdleCard /\ IdleRank /\ IdleHand /\ IdleSearch

\* Card::new for the five ranks in some suits, Hand::new
Build ==
    /\ pc = "start"
    /\ \E sv \in SuitVectors(ranksA) :
          hand' = HandNew([i \in 1..5 |-> CardNew(RankOfOrder(ranksA[i]), sv[i])])
    /\ pc' = "built"
    /\ UNCHANGED <<profile, other, result, cardVars, rankVars, searchVars, productVars>>

\* HandRank::compute(&hand), with lookup_index, the outcome of the flush
\* test, the table consulted and, where compute forms it, the product q
Compute ==
    /\ pc = "built"
    /\ \E prof \in Profiles :
          result' = [lookup_index |-> LookupIndex(hand),
                     flush |-> all_same_suit(hand),
                     table |-> ConsultedKey(hand)[1],
                     q |-> IF ConsultedKey(hand)[1] = "PRODUCTS"
                           THEN Ok(PrimeProduct(hand)) ELSE NotCalled,
                     ret |-> compute(hand, prof)]
    /\ pc' = "computed"
    /\ UNCHANGED <<profile, hand, other, cardVars, rankVars, searchVars, productVars>>

NextParts ==
    \/ Build
    \/ Compute

SpecParts == InitParts /\ [][NextParts]_vars

----------------------------------------------------------------------------
(* Properties.                                                             *)

\* The bits lo .. lo + width - 1 of c
Field(c, lo, width) == (c \div 2^lo) % 2^width

\* The ranks in ascending order: the rank of order o is RankTable[o + 1]
RankTable == <<"Two", "Three", "Four", "Five", "Six", "Seven", "Eight", "Nine",
               "Ten", "Jack", "Queen", "King", "Ace">>
OrderOf(rank) == (CHOOSE i \in 1..13 : RankTable[i] = rank) - 1

\* The suit bits as the layout of the packed card states them
LayoutSuitBit(suit) ==
    CASE suit = "Spades"   -> 4096
      [] suit = "Hearts"   -> 8192
      [] suit = "Diamonds" -> 16384
      [] suit = "Clubs"    -> 32768

\* The category ranges of the threshold table
Categories == {"StraightFlush", "FourOfAKind", "FullHouse", "Flush", "Straight",
               "ThreeOfAKind", "TwoPair", "OnePair", "HighCard"}
\* The lowest and the highest value of each category
CategoryBounds(c) ==
    CASE c = "StraightFlush" -> <<1, 10>>
      [] c = "FourOfAKind"   -> <<11, 166>>
      [] c = "FullHouse"     -> <<167, 322>>
      [] c = "Flush"         -> <<323, 1599>>
      [] c = "Straight"      -> <<1600, 1609>>
      [] c = "ThreeOfAKind"  -> <<1610, 2467>>
      [] c = "TwoPair"       -> <<2468, 3325>>
      [] c = "OnePair"       -> <<3326, 6185>>
      [] c = "HighCard"      -> <<6186, 7462>>
CategoryRange(c) == CategoryBounds(c)[1]..CategoryBounds(c)[2]
TableCategory(v) == CHOOSE c \in Categories : v \in CategoryRange(c)
\* Every value of category c is below every value of category d
Stronger(c, d) == CategoryBounds(c)[2] < CategoryBounds(d)[1]

\* How often each rank occurs among the five cards of h
RankCounts(h) == [r \in Rank |-> Cardinality({i \in 1..5 : CardRank(h[i]) = Ok(r)})]
\* The five cards of h are of one suit
OneSuit(h) == \A i \in 2..5 : CardSuit(h[i]) = CardSuit(h[1])
\* The five cards of h are of one rank
OneRank(h) == \A i \in 2..5 : CardRank(h[i]) = CardRank(h[1])
\* The five cards of h are pairwise distinct
DistinctCards(h) == \A i \in 1..5, j \in 1..5 : i # j => h[i] # h[j]

\* What Hand::rank returns for the hands of the tests
TestRanks == [t \in TestHands |-> HandRank(t, "debug")]

\* Both ranks of a finished comparison by operation op are there
Compared(op) ==
    /\ pc = "compared" /\ result.op = op
    /\ IsOk(result.self) /\ IsOk(result.other)

\* C1: whenever hand is the stronger of two compared hands (both values are
\* in 1..7462 and the value of hand is the smaller), hand.cmp(&other) is
\* Greater and max(hand, other) is hand.
C1_StrongerHandOrdersGreater ==
    (/\ Compared("cmp")
     /\ numeric(result.self.ok) \in 1..7462 /\ numeric(result.other.ok) \in 1..7462
     /\ numeric(result.self.ok) < numeric(result.other.ok))
        => (result.ret = Ok("Greater") /\ result.max = Ok(hand))

\* C2: hand > other holds exactly when numeric(hand) < numeric(other), and
\* hand < other exactly when numeric(hand) > numeric(other); a hand of a
\* stronger category range is greater than a hand of a weaker one; and > is
\* transitive: if hand > other and other > t then hand > t.
C2_GreaterIffSmallerNumeric ==
    Compared("partial_cmp") =>
        LET a == numeric(result.self.ok)
            b == numeric(result.other.ok)
        IN  /\ result.gt = Ok(a < b)
            /\ result.lt = Ok(a > b)
            /\ (a \in 1..7462 /\ b \in 1..7462
                    /\ Stronger(TableCategory(a), TableCategory(b)))
                  => result.gt = Ok(TRUE)
            /\ \A t \in TestHands :
                  (result.gt = Ok(TRUE) /\ gt(result.other, TestRanks[t]) = Ok(TRUE))
                      => gt(result.self, TestRanks[t]) = Ok(TRUE)

\* A straight flush has been found greater than a straight
C2_StraightFlushBeatsStraight ==
    /\ Compared("partial_cmp")
    /\ numeric(result.self.ok) \in 1..10
    /\ numeric(result.other.ok) \in 1600..1609
    /\ result.gt = Ok(TRUE) /\ result.lt = Ok(FALSE)

\* C3, as stated: for any five cards built by Card::new, distinct or not,
\* Hand::rank returns a rank whose numeric value is in 1..7462, and no fault.
C3_RangeForAnyFiveCards ==
    pc = "done" => (IsOk(result.ret) /\ numeric(result.ret.ok) \in 1..7462)

\* C3, amended: for any five pairwise distinct cards built by Card::new,
\* Hand::rank returns a rank whose numeric value is in 1..7462, in the range
\* of its category, and no fault.
C3_RangeForDistinctCards ==
    (pc = "done" /\ DistinctCards(hand)) =>
        /\ IsOk(result.ret)
        /\ numeric(result.ret.ok) \in 1..7462
        /\ numeric(result.ret.ok) \in CategoryRange(result.ret.ok.cat)

\* Five distinct cards with one pair have been ranked through the product search
C3_DistinctPairRanked ==
    /\ pc = "done" /\ DistinctCards(hand)
    /\ ConsultedKey(hand)[1] = "PRODUCTS"
    /\ IsOk(result.ret) /\ result.ret.ok.cat = "OnePair"

\* C4: a card built by Card::new(r, s) decodes to r by rank() and to s by
\* suit(), and neither call faults.
C4_RoundTrip ==
    (pc = "card" /\ made.by = "new") =>
        /\ (decoded.suit # NotCalled => decoded.suit = Ok(made.suit))
        /\ (decoded.rank # NotCalled => decoded.rank = Ok(made.rank))

\* The Ace of Clubs has been decoded by both calls
C4_AceOfClubsDecoded ==
    /\ pc = "card" /\ made.by = "new"
    /\ made.rank = "Ace" /\ made.suit = "Clubs"
    /\ decoded = [suit |-> Ok("Clubs"), rank |-> Ok("Ace")]

\* C5: the integer of Card::new(rank, suit) holds the rank's prime in bits
\* 0-7, its order in bits 8-11, the one suit bit in bits 12-15, the one bit
\* 16 + order in bits 16-28 and nothing above; the fields do not overlap
\* (the integer is their sum), and no other (rank, suit) gives the same integer.
C5_PackedLayout ==
    (pc = "card" /\ made.by = "new") =>
        LET o == OrderOf(made.rank)
        IN  /\ Field(card, 0, 8) = TablePrimes[o + 1]
            /\ Field(card, 8, 4) = o
            /\ Field(card, 12, 4) * 4096 = LayoutSuitBit(made.suit)
            /\ PopCount(Field(card, 12, 4)) = 1
            /\ Field(card, 16, 13) = 2^o
            /\ PopCount(Field(card, 16, 13)) = 1
            /\ card \div 2^29 = 0
            /\ card = TablePrimes[o + 1] + 256 * o + LayoutSuitBit(made.suit) + 2^(16 + o)
            /\ \A r \in Rank, s \in Suit :
                  <<r, s>> # <<made.rank, made.suit>> => CardNew(r, s) # card

\* The King of Diamonds has been packed as 134236965
C5_KingOfDiamondsPacked ==
    /\ pc = "card" /\ made.by = "new"
    /\ made.rank = "King" /\ made.suit = "Diamonds"
    /\ card = 134236965

\* Two compared hands have the same multiset of ranks and the same flush status
SameShape ==
    /\ pc = "compared" /\ result.op = "eq"
    /\ RankCounts(hand) = RankCounts(other)
    /\ OneSuit(hand) = OneSuit(other)

\* C6, as stated: two hands with the same multiset of ranks and the same
\* flush status are looked up at the same key of the same table, get the
\* same numeric value and are equal by ==.
C6_SameShapeSameValue ==
    SameShape =>
        /\ ConsultedKey(hand) = ConsultedKey(other)
        /\ IsOk(result.self) /\ IsOk(result.other)
        /\ numeric(result.self.ok) = numeric(result.other.ok)
        /\ result.ret = Ok(TRUE)

\* C6, amended: two hands with the same multiset of ranks and the same flush
\* status are looked up at the same key of the same table and have the same
\* outcome.  Unless they are five cards of one rank and no flush, both get
\* the same numeric value and are equal by ==; if they are, the key is not
\* in PRODUCTS, both evaluations fault alike and so does ==.
C6_SameShapeSameOutcome ==
    SameShape =>
        /\ ConsultedKey(hand) = ConsultedKey(other)
        /\ result.self = result.other
        /\ IsPanic(result.self) <=> (OneRank(hand) /\ ~OneSuit(hand))
        /\ IsOk(result.self) =>
              /\ numeric(result.self.ok) = numeric(result.other.ok)
              /\ result.ret = Ok(TRUE)
        /\ IsPanic(result.self) => result.ret = result.self

\* A pair of twos in hearts and diamonds has been found equal to the same
\* ranks in spades, clubs and diamonds
C6_OtherSuitsEqual ==
    /\ SameShape
    /\ hand # other
    /\ CardSuit(hand[1]) = Ok("Hearts") /\ CardSuit(other[1]) = Ok("Spades")
    /\ ConsultedKey(hand)[1] = "PRODUCTS"
    /\ result.ret = Ok(TRUE)

\* C7: for a value in 1..7462, HandRank::from gives the one category whose
\* range of the threshold table holds the value, and numeric() of the
\* result gives the value back.
C7_CategoryByThresholds ==
    (pc \in {"built", "read"} /\ value \in 1..7462) =>
        /\ Cardinality({c \in Categories : value \in CategoryRange(c)}) = 1
        /\ handrank.rank.cat = TableCategory(value)
        /\ (pc = "read" => handrank.numeric = value)

\* The value 1600 has become a Straight and been read back
C7_LowestStraightValue ==
    /\ pc = "read" /\ value = 1600
    /\ handrank.rank.cat = "Straight"
    /\ handrank.numeric = 1600

\* C8: for a key that is not in PRODUCTS, find_value_index reads PRODUCTS
\* only at indices 0..4887, never takes high below 0 (nor wraps it), never
\* returns an index, and ends, if it ends, in the "No match found" fault.
C8_AbsentKeyMissesCleanly ==
    (pc # "start" /\ q \notin ProductSet) =>
        /\ reads \subseteq 0..4887
        /\ high \in 0..4888
        /\ pc \in {"loop", "panic"}
        /\ (pc = "panic" => result = Panic("No match found"))

\* C9, as stated: for a u32 wrapped by From<u32>, suit() faults when bits
\* 12-15 are not one-hot and rank() faults when bits 16-28 are not one-hot.
C9_MalformedOneHotFaults ==
    (pc = "card" /\ made.by = "from") =>
        /\ (decoded.suit # NotCalled /\ PopCount(Field(card, 12, 4)) # 1)
              => IsPanic(decoded.suit)
        /\ (decoded.rank # NotCalled /\ PopCount(Field(card, 16, 13)) # 1)
              => IsPanic(decoded.rank)

\* C9, amended: for a u32 wrapped by From<u32>, suit() faults exactly when
\* bits 12-15 are not one-hot, and returns the suit of the one bit otherwise;
\* rank() reads the order in bits 8-11, whatever bits 16-28 hold: it faults
\* exactly when that order is 13, 14 or 15, and returns the rank of the
\* order otherwise.
C9_DecodersFaultOnOwnField ==
    (pc = "card" /\ made.by = "from") =>
        /\ decoded.suit # NotCalled =>
              IF PopCount(Field(card, 12, 4)) # 1
              THEN decoded.suit = Panic("Bad suite encoding")
              ELSE /\ IsOk(decoded.suit)
                   /\ LayoutSuitBit(decoded.suit.ok) = Field(card, 12, 4) * 4096
        /\ decoded.rank # NotCalled =>
              IF Field(card, 8, 4) \in 13..15
              THEN decoded.rank = Panic("Bad rank encoding")
              ELSE decoded.rank = Ok(RankTable[Field(card, 8, 4) + 1])

\* A wrapped value with no bit in bits 12-15 and none in bits 16-28 has made
\* suit() fault and rank() return Two
C9_EmptyFieldsDecoded ==
    /\ pc = "card" /\ made.by = "from"
    /\ Field(card, 12, 4) = 0 /\ Field(card, 16, 13) = 0
    /\ decoded = [suit |-> Panic("Bad suite encoding"), rank |-> Ok("Two")]

\* The products of the five primes of all of them differ
AllProductsDiffer ==
    Cardinality({PrimeProduct(HandOfRanks(m)) : m \in AllRankMultisets})
        = Cardinality(AllRankMultisets)

\* C10: two different multisets of five ranks have different prime products,
\* for the pair multiplied and among all multisets of the thirteen ranks.
C10_ProductsDiffer ==
    pc = "multiplied" =>
        /\ (ranksA # ranksB => products.a # products.b)
        /\ AllProductsDiffer

\* Four twos and a three (48) have been multiplied beside three twos and two
\* threes (72)
C10_NeighbouringProducts ==
    /\ pc = "multiplied"
    /\ ranksA = <<0, 0, 0, 0, 1>> /\ ranksB = <<0, 0, 0, 1, 1>>
    /\ products = [a |-> 48, b |-> 72]

\* PRODUCTS is strictly ascending
StrictlyAscending ==
    \A i \in DOMAIN PRODUCTS :
        (i + 1) \in DOMAIN PRODUCTS => PRODUCTS[i] < PRODUCTS[i + 1]

\* i is the one index of key q in PRODUCTS
IsIndexOfKey(i) ==
    /\ StrictlyAscending
    /\ i \in DOMAIN PRODUCTS /\ PRODUCTS[i] = q
    /\ ((i - 1) \in DOMAIN PRODUCTS => PRODUCTS[i - 1] < q)
    /\ ((i + 1) \in DOMAIN PRODUCTS => PRODUCTS[i + 1] > q)

\* A search for a key of PRODUCTS is under way or over
SearchingPresentKey == pc # "start" /\ q \in ProductSet

\* While a key of PRODUCTS is searched for: low, mid and high are in
\* 0..4888, PRODUCTS is read at indices 0..4887 only, the key lies between
\* PRODUCTS[low] and the entry at high (the last one for high = 4888), no
\* fault occurs, and a return gives the index of the key.
PresentKeyBounds ==
    SearchingPresentKey =>
        /\ low \in 0..4888 /\ mid \in 0..4888 /\ high \in 0..4888
        /\ reads \subseteq 0..4887
        /\ pc \in {"loop", "return"}
        /\ (pc = "loop" =>
                /\ low <= high /\ low <= 4887
                /\ PRODUCTS[low] <= q
                /\ q <= PRODUCTS[IF high = 4888 THEN 4887 ELSE high])
        /\ (pc = "return" => (IsOk(result) /\ IsIndexOfKey(result.ok) /\ mid = result.ok))

\* A pass of the loop for a key of PRODUCTS ends the search or narrows high - low
PresentKeyProgress ==
    (SearchingPresentKey /\ pc = "loop") =>
        (pc' # "loop" \/ high' - low' < high - low)

\* C11: for every key PRODUCTS[i], find_value_index keeps low, mid and high
\* in 0..4888, reads PRODUCTS at indices 0..4887 only, narrows high - low
\* with every pass that does not end the search (so it terminates), never
\* faults, and returns exactly i.
C11_PresentKeyFound == [](PresentKeyBounds) /\ [][PresentKeyProgress]_vars

\* The last key of PRODUCTS has been found at index 4887
C11_LastKeyFound ==
    /\ pc = "return"
    /\ q = PRODUCTS[4887]
    /\ result = Ok(4887)
    /\ 4887 \in reads

\* The rank orders dealt to the hand
OrdersDealt == {ranksA[i] : i \in 1..5}

\* C12: bit k of lookup_index is set exactly when a card of rank order k is
\* in the hand; so lookup_index is in 1..8191, an index of FLUSHES and of
\* UNIQUES, and has as many set bits as the hand has distinct ranks.
C12_MaskOfRanksPresent ==
    pc = "computed" =>
        /\ \A k \in 0..12 : (Bit(result.lookup_index, k) = 1) <=> (k \in OrdersDealt)
        /\ result.lookup_index \div 2^13 = 0
        /\ result.lookup_index \in 1..8191
        /\ result.lookup_index \in DOMAIN FLUSHES
        /\ result.lookup_index \in DOMAIN UNIQUES
        /\ PopCount(result.lookup_index) = Cardinality(OrdersDealt)

\* Ace, Two, Three, Four, Five have given the mask 0x100F
C12_WheelMask ==
    /\ pc = "computed"
    /\ ranksA = <<0, 1, 2, 3, 12>>
    /\ result.lookup_index = 4111

\* C13: the flush test is true exactly when the five cards are of one suit,
\* and exactly then compute takes its result from FLUSHES[lookup_index],
\* whatever UNIQUES holds for the mask; a hand of mixed suits takes it from
\* UNIQUES or from the product search.
C13_FlushTestExact ==
    pc = "computed" =>
        /\ result.flush <=> OneSuit(hand)
        /\ (result.table = "FLUSHES") <=> OneSuit(hand)
        /\ OneSuit(hand) => result.ret = Ok(HandRankFrom(FLUSHES[result.lookup_index]))
        /\ (result.table = "UNIQUES") =>
              result.ret = Ok(HandRankFrom(UNIQUES[result.lookup_index]))
        /\ (result.table = "PRODUCTS" /\ IsOk(result.ret)) =>
              result.ret = Ok(HandRankFrom(ValueOfProduct(result.q.ok)))

\* Ten to Ace in Clubs have been ranked from FLUSHES as the best straight
\* flush, although UNIQUES holds a straight for the mask
C13_RoyalFlushInClubs ==
    /\ pc = "computed"
    /\ ranksA = <<8, 9, 10, 11, 12>>
    /\ \A i \in 1..5 : CardSuit(hand[i]) = Ok("Clubs")
    /\ result.flush /\ result.table = "FLUSHES"
    /\ UNIQUES[result.lookup_index] = 1600
    /\ result.ret = Ok([cat |-> "StraightFlush", n |-> 1])

\* The product of the primes of the first k ranks dealt
RECURSIVE ProductOfPrimes(_, _)
ProductOfPrimes(m, k) ==
    IF k = 0 THEN 1 ELSE TablePrimes[m[k] + 1] * ProductOfPrimes(m, k - 1)

\* C14: the low byte of each card is the prime of its rank; every product
\* compute forms on the way to q is the product of those primes and at most
\* 41^5 = 115856201, which is below 2^31 and so below 2^32: no u32 product
\* wraps, and q is the integer product of the five primes.
C14_ProductFitsU32 ==
    pc \in {"built", "computed"} =>
        /\ \A i \in 1..5 : Field(hand[i], 0, 8) = TablePrimes[ranksA[i] + 1]
        /\ \A k \in 1..5 :
              /\ PrimeProductSteps(hand)[k] = ProductOfPrimes(ranksA, k)
              /\ PrimeProductSteps(hand)[k] <= 115856201
        /\ 115856201 = 41 * 41 * 41 * 41 * 41 /\ 115856201 < 2^30 + (2^30 - 1)
        /\ (pc = "computed" /\ result.q # NotCalled) =>
              result.q = Ok(ProductOfPrimes(ranksA, 5))

\* Five aces of mixed suits have given q = 41^5
C14_FiveAcesProduct ==
    /\ pc = "computed"
    /\ ranksA = <<12, 12, 12, 12, 12>>
    /\ result.table = "PRODUCTS"
    /\ result.q = Ok(115856201)

====
